---- MODULE Spec2Model ----
(***************************************************************************)
(* SlotGuard: the FHESlotMachine contract (deposit, betAndSpin,            *)
(* claimAllMock and its views) and the pages of the React frontend that    *)
(* call it.                                                                *)
(*                                                                         *)
(* Encrypted values (euint8, euint32, euint64) are modelled by their       *)
(* cleartexts: the FHE library computes on ciphertexts exactly what the    *)
(* corresponding unsigned fixed-width operation computes on cleartexts.    *)
(* Wide unsigned integers are little-endian sequences of 16-bit limbs, so  *)
(* that uint32, uint64 and uint256 keep their real width: a uint64 is 4    *)
(* limbs, a uint256 is 16 limbs.                                           *)
(***************************************************************************)
EXTENDS Integers, Sequences, FiniteSets, TLC

VARIABLES
    history,         \* _history: player -> sequence of GameRecord
    players,         \* _players: sequence of addresses
    isPlayer,        \* _isPlayer: player -> BOOLEAN
    balance,         \* address(this).balance, a uint256
    blockTimestamp,  \* block.timestamp of the next transaction
    receipt,         \* outcome of the last transaction: status, event, transfer
    calc,            \* one evaluation of the payout rules (pure functions)
    ui               \* the frontend pages: status lines, phases, handler positions

vars == <<history, players, isPlayer, balance, blockTimestamp, receipt, calc, ui>>

chainVars == <<history, players, isPlayer, balance, blockTimestamp, receipt>>

-----------------------------------------------------------------------------
(* Fixed-width unsigned arithmetic on limb sequences.                      *)

Base == 2 ^ 16

Limbs32 == 2

Limbs64 == 4

Limbs256 == 16

Zero(n) == [i \in 1..n |-> 0]

\* The n-limb value of a small natural x < Base.
Small(x, n) == [i \in 1..n |-> IF i = 1 THEN x ELSE 0]

\* Widen (zero-extend) or narrow (keep the low limbs) to n limbs.
Resize(a, n) == [i \in 1..n |-> IF i <= Len(a) THEN a[i] ELSE 0]

IsZero(a) == \A i \in 1..Len(a) : a[i] = 0

\* a + b on limb sequences of the same length, wrapping at that length.
RECURSIVE AddFrom(_, _, _, _)
AddFrom(a, b, i, carry) ==
    IF i > Len(a) THEN <<>>
    ELSE <<(a[i] + b[i] + carry) % Base>>
         \o AddFrom(a, b, i + 1, (a[i] + b[i] + carry) \div Base)

AddW(a, b) == AddFrom(a, b, 1, 0)

\* a - b on limb sequences of the same length, wrapping at that length.
RECURSIVE SubFrom(_, _, _, _)
SubFrom(a, b, i, borrow) ==
    IF i > Len(a) THEN <<>>
    ELSE <<(a[i] - b[i] - borrow + Base) % Base>>
         \o SubFrom(a, b, i + 1, IF a[i] - b[i] - borrow < 0 THEN 1 ELSE 0)

SubW(a, b) == SubFrom(a, b, 1, 0)

\* a >= b on limb sequences of the same length, from the top limb down.
RECURSIVE GeqFrom(_, _, _)
GeqFrom(a, b, i) ==
    IF i = 0 THEN TRUE
    ELSE IF a[i] # b[i] THEN a[i] > b[i]
    ELSE GeqFrom(a, b, i - 1)

Geq(a, b) == GeqFrom(a, b, Len(a))

\* The exact product a * m of a limb sequence and a small natural m < Base:
\* one limb longer than a, the last limb being what does not fit.
RECURSIVE MulFrom(_, _, _, _)
MulFrom(a, m, i, carry) ==
    IF i > Len(a) THEN <<carry>>
    ELSE <<(a[i] * m + carry) % Base>>
         \o MulFrom(a, m, i + 1, (a[i] * m + carry) \div Base)

MulExact(a, m) == MulFrom(a, m, 1, 0)

\* floor(a / 2).
Half(a) ==
    [i \in 1..Len(a) |->
        (a[i] + (IF i < Len(a) THEN Base * (a[i + 1] % 2) ELSE 0)) \div 2]

\* a mod m for a small natural m, by Horner's rule from the top limb down.
RECURSIVE ModFrom(_, _, _, _)
ModFrom(a, m, i, r) ==
    IF i = 0 THEN r ELSE ModFrom(a, m, i - 1, (r * Base + a[i]) % m)

ModSmall(a, m) == ModFrom(a, m, Len(a), 0)

-----------------------------------------------------------------------------
(* The FHE library calls of the contract, on cleartexts.                   *)

\* FHE.mul on euint64: the product modulo 2^64.
FHE_mul64(a, b) == Resize(MulExact(a, b[1]), Limbs64)

\* FHE.div(euint64, 2).
FHE_div64(a, d) == IF d = 2 THEN Half(a) ELSE a

\* FHE.rem(euint32, 6): a euint32 holding the remainder.
FHE_rem32(a, m) == Small(ModSmall(a, m), Limbs32)

\* FHE.asEuint8(euint32): the low 8 bits.
FHE_asEuint8(a) == a[1] % 256

\* FHE.asEuint64(euint8): zero-extension.
FHE_asEuint64(m) == Small(m, Limbs64)

\* uint64(msg.value): the low 64 bits of a uint256.
Uint64Of(v) == Resize(v, Limbs64)

-----------------------------------------------------------------------------
(* The payout rules: contract and frontend.                                *)

Symbols == 0..5

xHalfCode == 255

\* _computeMultiplier with the repeated symbol looked for in (s1, s2) and
\* (s2, s3) only.
computeMultiplier_noOuterPair(s1, s2, s3) ==
    LET s1eqs2 == s1 = s2
        s2eqs3 == s2 = s3
        s1eqs3 == s1 = s3
        threeEq == s1eqs2 /\ s2eqs3
        twoEq == s1eqs2 \/ (s2eqs3 \/ s1eqs3)
        threeEqMult == IF s1 = 5 THEN 50 ELSE (IF s1 = 4 THEN 25 ELSE 5)
        pairSym == IF s1eqs2 THEN s1 ELSE IF s2eqs3 THEN s2 ELSE 255
        pairIsHigh == (pairSym = 4) \/ (pairSym = 5)
        twoEqMult == IF pairIsHigh THEN 2 ELSE 255
    IN  IF threeEq THEN threeEqMult ELSE (IF twoEq THEN twoEqMult ELSE 0)

\* FHESlotMachine._computeMultiplier, select by select.
_computeMultiplier(s1, s2, s3) ==
    LET s1eqs2 == s1 = s2
        s2eqs3 == s2 = s3
        s1eqs3 == s1 = s3
        threeEq == s1eqs2 /\ s2eqs3
        twoEq == s1eqs2 \/ (s2eqs3 \/ s1eqs3)
        threeEqMult == IF s1 = 5 THEN 50 ELSE (IF s1 = 4 THEN 25 ELSE 5)
        pairSym == IF s1eqs2 THEN s1
                   ELSE IF s2eqs3 THEN s2
                   ELSE IF s1eqs3 THEN s1
                   ELSE 255
        pairIsHigh == (pairSym = 4) \/ (pairSym = 5)
        twoEqMult == IF pairIsHigh THEN 2 ELSE xHalfCode
    IN  IF threeEq THEN threeEqMult ELSE (IF twoEq THEN twoEqMult ELSE 0)

\* A JavaScript number that is a multiple of 1/2, as numerator and denominator.
Num(n) == [num |-> n, den |-> 1]

HalfNum == [num |-> 1, den |-> 2]

\* getMultiplierInfo with the high pair looked for in (a, b) and (b, c) only.
getMultiplierInfo_noOuterPair(a, b, c) ==
    LET allEq == a = b /\ b = c
        anyTwoEq == a = b \/ b = c \/ a = c
    IN  IF allEq
        THEN IF a = 5 THEN [name |-> "Three Clovers", mult |-> Num(50)]
             ELSE IF a = 4 THEN [name |-> "Three Sevens", mult |-> Num(25)]
             ELSE [name |-> "Three of a kind", mult |-> Num(5)]
        ELSE IF anyTwoEq
        THEN IF \/ (a = b /\ (a = 4 \/ a = 5))
                \/ (b = c /\ (b = 4 \/ b = 5))
             THEN [name |-> "High Pair (7/ Clover)", mult |-> Num(2)]
             ELSE [name |-> "Low Pair", mult |-> HalfNum]
        ELSE [name |-> "No match", mult |-> Num(0)]

\* getMultiplierInfo of the frontend.
getMultiplierInfo(a, b, c) ==
    LET allEq == a = b /\ b = c
        anyTwoEq == a = b \/ b = c \/ a = c
    IN  IF allEq
        THEN IF a = 5 THEN [name |-> "Three Clovers", mult |-> Num(50)]
             ELSE IF a = 4 THEN [name |-> "Three Sevens", mult |-> Num(25)]
             ELSE [name |-> "Three of a kind", mult |-> Num(5)]
        ELSE IF anyTwoEq
        THEN IF \/ (a = b /\ (a = 4 \/ a = 5))
                \/ (b = c /\ (b = 4 \/ b = 5))
                \/ (a = c /\ (a = 4 \/ a = 5))
             THEN [name |-> "High Pair (7/ Clover)", mult |-> Num(2)]
             ELSE [name |-> "Low Pair", mult |-> HalfNum]
        ELSE [name |-> "No match", mult |-> Num(0)]

\* Step 4 without the select: the product with the code, whatever the code.
computePayout_noSelect(bet, mult) == FHE_mul64(bet, FHE_asEuint64(mult))

\* Step 4 of betAndSpin: the payout stored for a bet and a multiplier code.
computePayout(bet, mult) ==
    LET intPayout == FHE_mul64(bet, FHE_asEuint64(mult))
        isHalf == mult = 255
        halfPayout == FHE_div64(bet, 2)
    IN  IF isHalf THEN halfPayout ELSE intPayout

\* A reel narrowed from the random value itself, the remainder left out.
drawSymbol_noRem(rnd) == FHE_asEuint8(rnd)

\* Step 2 of betAndSpin: one reel from one 32-bit random value.
drawSymbol(rnd) == FHE_asEuint8(FHE_rem32(rnd, 6))

-----------------------------------------------------------------------------
(* Sample inputs.                                                          *)

\* Amounts in wei.
ThreeWei == Small(3, Limbs64)

OneEth == <<0, 42852, 46771, 3552>>

\* 20 ETH = 2 * 10^19 wei, more than 2^64 - 1.
TwentyEth == Resize(<<0, 5072, 17929, 5518, 1>>, Limbs256)

\* 32-bit random values, one for each residue modulo 6:
\* 0, 0x80000005, 0x00020000, 0xFFFFFFFF, 0x00000100, 0x00010001.
RandSamples == {<<0, 0>>, <<5, 32768>>, <<0, 2>>, <<65535, 65535>>, <<256, 0>>, <<1, 1>>}

MsgValueSamples == {Zero(Limbs256), Resize(ThreeWei, Limbs256), Resize(OneEth, Limbs256), TwentyEth}

BetExtSamples == {ThreeWei, OneEth}

-----------------------------------------------------------------------------
(* Steps 1 to 4 of betAndSpin as a pipeline over one set of inputs, and    *)
(* the rule the frontend shows for the decrypted symbols.                  *)

NoInfo == [name |-> "", mult |-> Num(0)]

\* Step 1: the bet is msg.value narrowed to 64 bits when ETH is sent, else
\* the encrypted external input.
resolveBet(msgValue, betExt) ==
    IF ~IsZero(msgValue) THEN Uint64Of(msgValue) ELSE betExt

CalcInit ==
    \E v \in MsgValueSamples, e \in BetExtSamples, r1 \in RandSamples,
       r2 \in RandSamples, r3 \in RandSamples :
        calc = [stage |-> "input", msgValue |-> v, betExt |-> e,
                rnd |-> <<r1, r2, r3>>, bet |-> Zero(Limbs64),
                sym |-> <<0, 0, 0>>, mult |-> 0, info |-> NoInfo,
                payout |-> Zero(Limbs64)]

CalcIdle ==
    calc = [stage |-> "off", msgValue |-> Zero(Limbs256), betExt |-> Zero(Limbs64),
            rnd |-> <<Zero(Limbs32), Zero(Limbs32), Zero(Limbs32)>>,
            bet |-> Zero(Limbs64), sym |-> <<0, 0, 0>>, mult |-> 0,
            info |-> NoInfo, payout |-> Zero(Limbs64)]

CalcResolveBet ==
    /\ calc.stage = "input"
    /\ calc' = [calc EXCEPT !.stage = "bet",
                            !.bet = resolveBet(calc.msgValue, calc.betExt)]
    /\ UNCHANGED <<chainVars, ui>>

CalcDrawReels ==
    /\ calc.stage = "bet"
    /\ calc' = [calc EXCEPT !.stage = "reels",
                            !.sym = <<drawSymbol(calc.rnd[1]), drawSymbol(calc.rnd[2]),
                                      drawSymbol(calc.rnd[3])>>]
    /\ UNCHANGED <<chainVars, ui>>

CalcMultiplier ==
    /\ calc.stage = "reels"
    /\ calc' = [calc EXCEPT !.stage = "mult",
                            !.mult = _computeMultiplier(calc.sym[1], calc.sym[2], calc.sym[3])]
    /\ UNCHANGED <<chainVars, ui>>

CalcPayout ==
    /\ calc.stage = "mult"
    /\ calc' = [calc EXCEPT !.stage = "payout",
                            !.payout = computePayout(calc.bet, calc.mult)]
    /\ UNCHANGED <<chainVars, ui>>

CalcShowRule ==
    /\ calc.stage = "payout"
    /\ calc' = [calc EXCEPT !.stage = "shown",
                            !.info = getMultiplierInfo(calc.sym[1], calc.sym[2], calc.sym[3])]
    /\ UNCHANGED <<chainVars, ui>>

-----------------------------------------------------------------------------
(* The contract.                                                           *)

Players == {"alice", "bob"}

\* Transactions in a run; each is mined in a block of its own, one second
\* after the previous one.
MaxTx == 3

\* Records a player's history may hold.
MaxHist == 2

\* Length of the arrays given to claimAllMock.
MaxClaim == 2

\* 0xFFFFFFFF
ChainRandSamples == {<<65535, 65535>>}

ChainMsgValueSamples == {Zero(Limbs256), Resize(OneEth, Limbs256)}

ChainBetExtSamples == {ThreeWei}

DepositSamples == {Zero(Limbs256), Resize(OneEth, Limbs256)}

ClearPayoutSamples == {Zero(Limbs64), OneEth}

SeqsUpTo(S, n) == UNION {[1..k -> S] : k \in 0..n}

\* Arrays of k amounts: nothing, 1 ETH for each record, 1 ETH for the first.
ClearPayoutArrays(k) ==
    {[i \in 1..k |-> Zero(Limbs64)], [i \in 1..k |-> OneEth],
     [i \in 1..k |-> IF i = 1 THEN OneEth ELSE Zero(Limbs64)]}

\* Arguments of claimAllMock: every array of indexes with arrays of amounts
\* of the same length, and pairs whose lengths differ by one.
ClaimArgSamples ==
    UNION {[1..k -> (0..(MaxHist - 1))] \X ClearPayoutArrays(k) : k \in 0..MaxClaim}
    \cup {<<[i \in 1..(k + 1) |-> 0], [i \in 1..k |-> OneEth]>> : k \in 0..(MaxClaim - 1)}

NoEvent == [name |-> "none"]

\* What a transaction leaves behind: the call and the ETH sent with it, its
\* status and revert reason, the event it emitted, the ETH it sent to its caller.
Receipt(fn, sender, value, status, reason, event, paid) ==
    [fn |-> fn, sender |-> sender, value |-> value, status |-> status,
     reason |-> reason, event |-> event, paid |-> paid]

GameRecord(bet, s1, s2, s3, encPayout, ts) ==
    [encBet |-> bet, sym1 |-> s1, sym2 |-> s2, sym3 |-> s3,
     encPayout |-> encPayout, timestamp |-> ts, claimed |-> FALSE]

ChainInit ==
    /\ history = [p \in Players |-> <<>>]
    /\ players = <<>>
    /\ isPlayer = [p \in Players |-> FALSE]
    /\ balance = Zero(Limbs256)
    /\ blockTimestamp = 0
    /\ receipt = Receipt("constructor", "none", Zero(Limbs256), "ok", "", NoEvent, Zero(Limbs256))

\* A reverted transaction: the block is mined, the state is as before.
Revert(fn, sender, value, reason) ==
    /\ receipt' = Receipt(fn, sender, value, "revert", reason, NoEvent, Zero(Limbs256))
    /\ blockTimestamp' = blockTimestamp + 1
    /\ UNCHANGED <<history, players, isPlayer, balance>>

\* deposit without its require.
deposit_noRequire(sender, msgValue) ==
    /\ balance' = AddW(balance, msgValue)
    /\ receipt' = Receipt("deposit", sender, msgValue, "ok", "",
                          [name |-> "Deposit", from |-> sender, amount |-> msgValue],
                          Zero(Limbs256))
    /\ blockTimestamp' = blockTimestamp + 1
    /\ UNCHANGED <<history, players, isPlayer>>

\* deposit() payable
deposit(sender, msgValue) ==
    IF ~(~IsZero(msgValue))  \* require(msg.value > 0)
    THEN Revert("deposit", sender, msgValue, "No ETH sent")
    ELSE /\ balance' = AddW(balance, msgValue)
         /\ receipt' = Receipt("deposit", sender, msgValue, "ok", "",
                               [name |-> "Deposit", from |-> sender, amount |-> msgValue],
                               Zero(Limbs256))
         /\ blockTimestamp' = blockTimestamp + 1
         /\ UNCHANGED <<history, players, isPlayer>>

\* The record written over the last slot when there is one.
pushRecord_overwritesLast(h, rec) ==
    IF h = <<>> THEN <<rec>> ELSE [h EXCEPT ![Len(h)] = rec]

\* A zeroed slot pushed and the record written to the first slot.
pushRecord_writesFirst(h, rec) ==
    LET pushed == Append(h, GameRecord(Zero(Limbs64), 0, 0, 0, Zero(Limbs64), 0))
    IN  [pushed EXCEPT ![1] = rec]

\* Step 6 of betAndSpin: push() and the assignment of the new last slot.
pushRecord(h, rec) == Append(h, rec)

\* The player pushed on every play.
trackPlayer_noCheck(sender) ==
    /\ isPlayer' = [isPlayer EXCEPT ![sender] = TRUE]
    /\ players' = Append(players, sender)

\* The unique-player list of betAndSpin.
trackPlayer(sender) ==
    IF ~isPlayer[sender]
    THEN /\ isPlayer' = [isPlayer EXCEPT ![sender] = TRUE]
         /\ players' = Append(players, sender)
    ELSE UNCHANGED <<isPlayer, players>>

\* betAndSpin(betExt, proof) payable. FHE.fromExternal reverts on a proof
\* that does not verify; it is evaluated only when no ETH is sent.
betAndSpin(sender, msgValue, betExt, proofOk, r1, r2, r3) ==
    IF IsZero(msgValue) /\ ~proofOk
    THEN Revert("betAndSpin", sender, msgValue, "Invalid proof")
    ELSE LET bet == resolveBet(msgValue, betExt)
             s1 == drawSymbol(r1)
             s2 == drawSymbol(r2)
             s3 == drawSymbol(r3)
             mult == _computeMultiplier(s1, s2, s3)
             encPayout == computePayout(bet, mult)
             rec == GameRecord(bet, s1, s2, s3, encPayout, blockTimestamp)
             pushed == pushRecord(history[sender], rec)
         IN  /\ history' = [history EXCEPT ![sender] = pushed]
             /\ trackPlayer(sender)
             /\ balance' = AddW(balance, msgValue)
             /\ receipt' = Receipt("betAndSpin", sender, msgValue, "ok", "",
                                   [name |-> "Played", player |-> sender,
                                    index |-> Len(pushed) - 1],
                                   Zero(Limbs256))
             /\ blockTimestamp' = blockTimestamp + 1

\* The flag left as it was.
markClaimed_noWrite(h, idx) == h

\* The record marked and its payout zeroed.
markClaimed_clearsPayout(h, idx) ==
    [h EXCEPT ![idx + 1].claimed = TRUE, ![idx + 1].encPayout = Zero(Limbs64)]

\* The record marked and every other record of the caller unmarked.
markClaimed_resetsOthers(h, idx) ==
    [i \in 1..Len(h) |-> [h[i] EXCEPT !.claimed = (i = idx + 1)]]

\* r.claimed = true on the record at idx.
markClaimed(h, idx) == [h EXCEPT ![idx + 1].claimed = TRUE]

\* The loop with the stored payout of each record added to the total in
\* place of the amount given.
RECURSIVE claimLoop_paysStored(_, _, _, _, _)
claimLoop_paysStored(h, indexes, clearPayouts, i, total) ==
    IF i > Len(indexes)
    THEN [reason |-> "", hist |-> h, total |-> total]
    ELSE LET idx == indexes[i]
         IN  IF ~(idx < Len(h))
             THEN [reason |-> "Index OOB", hist |-> h, total |-> total]
             ELSE IF h[idx + 1].claimed
             THEN [reason |-> "Already claimed", hist |-> h, total |-> total]
             ELSE claimLoop_paysStored(markClaimed(h, idx), indexes, clearPayouts,
                            i + 1, AddW(total, Resize(h[idx + 1].encPayout, Limbs256)))

\* The loop of claimAllMock from position i on, over the caller's history h:
\* the reason of the first failed require, or the marked history and the total.
RECURSIVE claimLoop(_, _, _, _, _)
claimLoop(h, indexes, clearPayouts, i, total) ==
    IF i > Len(indexes)
    THEN [reason |-> "", hist |-> h, total |-> total]
    ELSE LET idx == indexes[i]
         IN  IF ~(idx < Len(h))
             THEN [reason |-> "Index OOB", hist |-> h, total |-> total]
             ELSE IF h[idx + 1].claimed
             THEN [reason |-> "Already claimed", hist |-> h, total |-> total]
             ELSE claimLoop(markClaimed(h, idx), indexes, clearPayouts,
                            i + 1, AddW(total, Resize(clearPayouts[i], Limbs256)))

\* The requires of claimAllMock and what it sends, over the caller's history
\* h and the pool balance bal; accepts: whether the caller's address takes
\* the ETH sent to it.
claimOutcome(h, bal, indexes, clearPayouts, accepts) ==
    LET failed(reason) ==
            [status |-> "revert", reason |-> reason, hist |-> h, paid |-> Zero(Limbs256)]
    IN  IF Len(indexes) # Len(clearPayouts)
        THEN failed("Length mismatch")
        ELSE LET out == claimLoop(h, indexes, clearPayouts, 1, Zero(Limbs256))
             IN  IF out.reason # ""
                 THEN failed(out.reason)
                 ELSE IF ~Geq(bal, out.total)
                 THEN failed("Insufficient pool")
                 ELSE IF ~IsZero(out.total) /\ ~accepts
                 THEN failed("Transfer failed")
                 ELSE [status |-> "ok", reason |-> "", hist |-> out.hist, paid |-> out.total]

\* claimAllMock(indexes, clearPayouts). The send is the last statement: the
\* flags are written and the balance is reduced before the caller's code
\* runs, so a call it makes back into the contract meets the state this
\* action leaves and is one of the transactions that may follow it.
claimAllMock(sender, indexes, clearPayouts, accepts) ==
    LET out == claimOutcome(history[sender], balance, indexes, clearPayouts, accepts)
    IN  IF out.status = "revert"
        THEN Revert("claimAllMock", sender, Zero(Limbs256), out.reason)
        ELSE /\ history' = [history EXCEPT ![sender] = out.hist]
             /\ balance' = SubW(balance, out.paid)
             /\ receipt' = Receipt("claimAllMock", sender, Zero(Limbs256), "ok", "",
                                   NoEvent, out.paid)
             /\ blockTimestamp' = blockTimestamp + 1
             /\ UNCHANGED <<players, isPlayer>>

\* The views.
poolBalance == balance

getUserHistoryLength(user) == Len(history[user])

getPlayers == players

getUserRecordStatus(user, index) == history[user][index + 1].claimed

getUserRecord(user, index) ==
    LET r == history[user][index + 1]
    IN  <<r.encBet, r.sym1, r.sym2, r.sym3, r.encPayout, r.timestamp>>

Deposit ==
    /\ blockTimestamp < MaxTx
    /\ \E sender \in Players, v \in DepositSamples : deposit(sender, v)
    /\ UNCHANGED <<calc, ui>>

BetAndSpin ==
    /\ blockTimestamp < MaxTx
    /\ \E sender \in Players :
        /\ Len(history[sender]) < MaxHist
        /\ \E v \in ChainMsgValueSamples, e \in ChainBetExtSamples, proofOk \in BOOLEAN,
              r1 \in ChainRandSamples, r2 \in ChainRandSamples, r3 \in ChainRandSamples :
                betAndSpin(sender, v, e, proofOk, r1, r2, r3)
    /\ UNCHANGED <<calc, ui>>

ClaimAllMock ==
    /\ blockTimestamp < MaxTx
    /\ \E sender \in Players, args \in ClaimArgSamples, accepts \in BOOLEAN :
            claimAllMock(sender, args[1], args[2], accepts)
    /\ UNCHANGED <<calc, ui>>

-----------------------------------------------------------------------------
(* The frontend: one mounted page at a time (Routes), the wallet of one    *)
(* account. Every await is a step of its own; an awaited call ends in its  *)
(* result or in a thrown error.                                            *)

UiUser == "alice"

Undefined == "undefined"

\* Thrown values: an Error with a message, and a value without one.
ErrorSamples ==
    {[message |-> "user rejected action", text |-> "Error: user rejected action"],
     [message |-> Undefined, text |-> "timeout"]}

RevertError(reason) == [message |-> reason, text |-> reason]

InvalidAmount == [message |-> "invalid FixedNumber string value", text |-> "Error"]

\* The text typed into an amount field.
AmountSamples == {"1", "abc"}

\* parseEther: the amount in wei; it throws on a text that is no number.
parseEtherThrows(text) == text # "1"

parseEther(text) == Resize(OneEth, Limbs256)

NoFailure == [page |-> "none"]

NoRecord == <<>>

\* A page as mounted: the initial React state of its component.
Mounted(page, connected) ==
    [page |-> page, connected |-> connected,
     status |-> IF page = "welcome" THEN <<>> ELSE <<"Idle">>,
     pc |-> "idle", phase |-> "idle", claiming |-> FALSE,
     wei |-> Zero(Limbs256), playedIndex |-> <<>>, rec |-> NoRecord,
     reels |-> <<>>, spinCols |-> <<FALSE, FALSE, FALSE>>, finalPayout |-> Undefined,
     hitRule |-> Undefined, items |-> <<>>, decrypted |-> FALSE,
     claimArgs |-> <<>>, poolBal |-> "0", players |-> <<>>, pairs |-> <<>>,
     rows |-> <<>>, effectRan |-> FALSE, failure |-> NoFailure,
     displayReels |-> <<<<>>, <<>>, <<>>>>, spun |-> NoRecord, lengthAtRead |-> 0,
     txCalls |-> 0]

\* e?.message ?? String(e)
messageOf(e) == IF e.message # Undefined THEN e.message ELSE e.text

\* What a page renders of its status state: Welcome has no status line, it
\* shows the pool balance.
Displayed ==
    IF ui.page = "welcome" THEN {ui.poolBal}
    ELSE {ui.status[i] : i \in 1..Len(ui.status)}

UiInit == ui = Mounted("welcome", FALSE)

\* The wallet connects.
Connect ==
    /\ ~ui.connected
    /\ ui.pc = "idle" /\ ~ui.claiming
    /\ ui' = [ui EXCEPT !.connected = TRUE, !.failure = NoFailure]
    /\ UNCHANGED <<chainVars, calc>>

\* A click on a tab of Nav: the page is unmounted and the other one mounted.
\* Pages are left between handler runs, so that every run is followed to its
\* end on the page that started it.
Navigate ==
    /\ ui.pc = "idle" /\ ~ui.claiming
    /\ \E to \in {"welcome", "game", "history", "leaderboard"} :
        /\ to # ui.page
        /\ ui' = Mounted(to, ui.connected)
    /\ UNCHANGED <<chainVars, calc>>

\* The failure a handler has just caught; awaited: whether an awaited call
\* threw it (parseEther is not awaited).
Failure(e, awaited) == [page |-> ui.page, error |-> e, awaited |-> awaited]

\* formatEther: the amount as a decimal text in ETH.
formatEther(weiAmount) == <<"ETH", weiAmount>>

----------------------------------------------------------------------------
(* Welcome *)

\* refreshPool has started: it awaits getPoolBalance.
WelcomeStartRefresh(effect) ==
    ui' = [ui EXCEPT !.pc = "getPoolBalance", !.failure = NoFailure,
                     !.effectRan = IF effect THEN TRUE ELSE @]

\* useEffect(() => refreshPool(), [canUse])
WelcomeEffect ==
    /\ ui.page = "welcome" /\ ui.connected /\ ~ui.effectRan /\ ui.pc = "idle"
    /\ WelcomeStartRefresh(TRUE)
    /\ UNCHANGED <<chainVars, calc>>

\* The Refresh button.
WelcomeRefreshClick ==
    /\ ui.page = "welcome" /\ ui.connected /\ ui.effectRan /\ ui.pc = "idle"
    /\ WelcomeStartRefresh(FALSE)
    /\ UNCHANGED <<chainVars, calc>>

\* getPoolBalance returns or throws; refreshPool's catch block is empty.
WelcomeRefreshDone ==
    /\ ui.page = "welcome" /\ ui.pc = "getPoolBalance"
    /\ \/ ui' = [ui EXCEPT !.pc = "idle", !.poolBal = formatEther(poolBalance),
                           !.failure = NoFailure]
       \/ \E e \in ErrorSamples :
            ui' = [ui EXCEPT !.pc = "idle", !.failure = Failure(e, TRUE)]
    /\ UNCHANGED <<chainVars, calc>>

\* The Deposit button: onDeposit up to its first await.
WelcomeDepositClick ==
    /\ ui.page = "welcome" /\ ui.connected /\ ui.effectRan /\ ui.pc = "idle"
    /\ \E depEth \in AmountSamples :
        IF parseEtherThrows(depEth)
        THEN ui' = [ui EXCEPT !.failure = Failure(InvalidAmount, FALSE)]
        ELSE ui' = [ui EXCEPT !.pc = "deposit", !.wei = parseEther(depEth),
                              !.failure = NoFailure]
    /\ UNCHANGED <<chainVars, calc>>

\* depositFn returns (the transaction is mined) or throws; onDeposit's catch
\* block is empty. After a deposit onDeposit awaits refreshPool.
WelcomeDepositDone ==
    /\ ui.page = "welcome" /\ ui.pc = "deposit"
    /\ \/ /\ blockTimestamp < MaxTx
          /\ deposit(UiUser, ui.wei)
          /\ ui' = [ui EXCEPT !.pc = "getPoolBalance", !.failure = NoFailure]
       \/ /\ \E e \in ErrorSamples :
                ui' = [ui EXCEPT !.pc = "idle", !.failure = Failure(e, TRUE)]
          /\ UNCHANGED chainVars
    /\ UNCHANGED calc

----------------------------------------------------------------------------
(* Game *)

\* The catch block of onSpin.
GameCatch(e, awaited) ==
    ui' = [ui EXCEPT !.status = <<"Failed: ", messageOf(e)>>, !.phase = "idle",
                     !.pc = "idle", !.failure = Failure(e, awaited)]

\* startSpinAnim with the phase left as it is.
startSpinAnim_noPhase ==
    [ui EXCEPT !.finalPayout = Undefined, !.hitRule = Undefined,
               !.displayReels = <<<<>>, <<>>, <<>>>>, !.spinCols = <<TRUE, TRUE, TRUE>>]

\* startSpinAnim: the page as it spins, the last result cleared. A column
\* of displayReels is <<>> (null) or holds its symbol.
startSpinAnim ==
    [ui EXCEPT !.phase = "spinning", !.finalPayout = Undefined, !.hitRule = Undefined,
               !.displayReels = <<<<>>, <<>>, <<>>>>, !.spinCols = <<TRUE, TRUE, TRUE>>]

\* The Start button, enabled while phase is idle: onSpin up to its first
\* await (startSpinAnim, parseEther, the call of prepareEncryptedBet).
\* txCalls counts the calls of betAndSpinTx of the run (not React state).
GameSpinClick ==
    /\ ui.page = "game" /\ ui.connected /\ ui.phase = "idle"
    /\ \E amountEth \in AmountSamples :
        IF parseEtherThrows(amountEth)
        THEN ui' = [startSpinAnim EXCEPT
                        !.status = <<"Failed: ", messageOf(InvalidAmount)>>,
                        !.phase = "idle", !.pc = "idle",
                        !.failure = Failure(InvalidAmount, FALSE), !.txCalls = 0]
        ELSE ui' = [startSpinAnim EXCEPT
                        !.status = <<"Encrypting bet...">>, !.pc = "prepareEncryptedBet",
                        !.wei = parseEther(amountEth), !.failure = NoFailure,
                        !.txCalls = 0]
    /\ UNCHANGED <<chainVars, calc>>

\* prepareEncryptedBet returns, and betAndSpinTx is called, or throws.
GameEncrypted ==
    /\ ui.page = "game" /\ ui.pc = "prepareEncryptedBet"
    /\ \/ ui' = [ui EXCEPT !.status = <<"Waiting for wallet signature...">>,
                           !.pc = "betAndSpinTx", !.failure = NoFailure,
                           !.txCalls = @ + 1]
       \/ \E e \in ErrorSamples : GameCatch(e, TRUE)
    /\ UNCHANGED <<chainVars, calc>>

\* betAndSpinTx returns the submitted transaction or throws.
GameSubmitted ==
    /\ ui.page = "game" /\ ui.pc = "betAndSpinTx"
    /\ \/ ui' = [ui EXCEPT !.status = <<"Submitted, waiting for confirmation...">>,
                           !.pc = "wait", !.failure = NoFailure]
       \/ \E e \in ErrorSamples : GameCatch(e, TRUE)
    /\ UNCHANGED <<chainVars, calc>>

\* parsePlayedIndexFromReceipt: the index of the Played event if there is one
\* (<<index>>), else undefined (<<>>).
parsePlayedIndexFromReceipt(rc) ==
    IF rc.event.name = "Played" THEN <<rc.event.index>> ELSE <<>>

\* tx.wait() returns the receipt of the mined betAndSpin or throws. spun
\* keeps the record the transaction has appended (it is not React state).
GameConfirmed ==
    /\ ui.page = "game" /\ ui.pc = "wait"
    /\ \/ /\ blockTimestamp < MaxTx
          /\ Len(history[UiUser]) < MaxHist
          /\ \E r1 \in ChainRandSamples, r2 \in ChainRandSamples, r3 \in ChainRandSamples :
                betAndSpin(UiUser, ui.wei, Uint64Of(ui.wei), TRUE, r1, r2, r3)
          /\ LET playedIndex == parsePlayedIndexFromReceipt(receipt')
                 appended == history'[UiUser][Len(history'[UiUser])]
                 spun == <<appended.encBet, appended.sym1, appended.sym2, appended.sym3,
                           appended.encPayout, appended.timestamp>>
             IN  IF playedIndex # <<>>
                 THEN ui' = [ui EXCEPT !.status = <<"Fetching and decrypting result...">>,
                                       !.playedIndex = playedIndex, !.pc = "readOwnRecord",
                                       !.failure = NoFailure, !.spun = spun]
                 ELSE ui' = [ui EXCEPT !.status = <<"Result index not found.">>,
                                       !.phase = "idle", !.pc = "idle",
                                       !.failure = NoFailure, !.spun = spun]
       \/ /\ \E e \in ErrorSamples : GameCatch(e, TRUE)
          /\ UNCHANGED chainVars
    /\ UNCHANGED calc

\* readOwnRecord returns the handles of the record at playedIndex or throws.
\* lengthAtRead keeps the length of the history read (it is not React state).
GameRecordRead ==
    /\ ui.page = "game" /\ ui.pc = "readOwnRecord"
    /\ \/ IF ui.playedIndex[1] < getUserHistoryLength(UiUser)
          THEN ui' = [ui EXCEPT !.rec = getUserRecord(UiUser, ui.playedIndex[1]),
                                !.pc = "decryptUserRecords", !.failure = NoFailure,
                                !.lengthAtRead = getUserHistoryLength(UiUser)]
          ELSE GameCatch(RevertError("Index out of bounds"), TRUE)
       \/ \E e \in ErrorSamples : GameCatch(e, TRUE)
    /\ UNCHANGED <<chainVars, calc>>

\* decryptUserRecords returns the cleartexts or throws; the reveal begins.
GameDecrypted ==
    /\ ui.page = "game" /\ ui.pc = "decryptUserRecords"
    /\ \/ LET result == <<ui.rec[2], ui.rec[3], ui.rec[4]>>
          IN  ui' = [ui EXCEPT !.reels = result,
                               !.finalPayout = formatEther(ui.rec[5]),
                               !.hitRule = getMultiplierInfo(result[1], result[2], result[3]),
                               !.phase = "revealing", !.pc = "reveal1",
                               !.failure = NoFailure]
       \/ \E e \in ErrorSamples : GameCatch(e, TRUE)
    /\ UNCHANGED <<chainVars, calc>>

\* The three reveal timers, in order; the last one returns to idle.
GameRevealTimer ==
    /\ ui.page = "game" /\ ui.pc \in {"reveal1", "reveal2", "reveal3"}
    /\ ui' = [ui EXCEPT
                !.spinCols = IF ui.pc = "reveal1" THEN <<FALSE, @[2], @[3]>>
                             ELSE IF ui.pc = "reveal2" THEN <<@[1], FALSE, @[3]>>
                             ELSE <<@[1], @[2], FALSE>>,
                !.displayReels = IF ui.pc = "reveal1" THEN <<<<ui.reels[1]>>, @[2], @[3]>>
                                 ELSE IF ui.pc = "reveal2" THEN <<@[1], <<ui.reels[2]>>, @[3]>>
                                 ELSE <<@[1], @[2], <<ui.reels[3]>>>>,
                !.phase = IF ui.pc = "reveal3" THEN "idle" ELSE @,
                !.pc = IF ui.pc = "reveal1" THEN "reveal2"
                       ELSE IF ui.pc = "reveal2" THEN "reveal3" ELSE "idle",
                !.failure = NoFailure]
    /\ UNCHANGED <<chainVars, calc>>

----------------------------------------------------------------------------
(* History *)

\* readUserHistory: every record of the user with its index.
readUserHistory(user) ==
    [i \in 1..getUserHistoryLength(user) |->
        [index |-> i - 1, rec |-> getUserRecord(user, i - 1)]]

\* The effect of History: the load starts.
HistoryEffect ==
    /\ ui.page = "history" /\ ui.connected /\ ~ui.effectRan
    /\ ui' = [ui EXCEPT !.status = <<"Fetching history...">>, !.pc = "readUserHistory",
                        !.effectRan = TRUE, !.failure = NoFailure]
    /\ UNCHANGED <<chainVars, calc>>

\* readUserHistory returns or throws.
HistoryFetched ==
    /\ ui.page = "history" /\ ui.pc = "readUserHistory"
    /\ \/ ui' = [ui EXCEPT !.items = readUserHistory(UiUser),
                           !.status = <<"Fetched. Decrypting...">>,
                           !.pc = "decryptUserRecords", !.failure = NoFailure]
       \/ \E e \in ErrorSamples :
            ui' = [ui EXCEPT !.status = <<"Failed: ", messageOf(e)>>, !.pc = "idle",
                             !.failure = Failure(e, TRUE)]
    /\ UNCHANGED <<chainVars, calc>>

\* decryptUserRecords returns or throws.
HistoryDecrypted ==
    /\ ui.page = "history" /\ ui.pc = "decryptUserRecords"
    /\ \/ ui' = [ui EXCEPT !.decrypted = TRUE, !.status = <<"Ready">>, !.pc = "idle",
                           !.failure = NoFailure]
       \/ \E e \in ErrorSamples :
            ui' = [ui EXCEPT !.status = <<"Failed: ", messageOf(e)>>, !.pc = "idle",
                             !.failure = Failure(e, TRUE)]
    /\ UNCHANGED <<chainVars, calc>>

\* The items onClaimAll sends: those whose decrypted payout is above zero.
Claimable(items, decrypted) ==
    SelectSeq(items, LAMBDA it : decrypted /\ ~IsZero(it.rec[5]))

\* The Claim All button: onClaimAll up to its await.
HistoryClaimClick ==
    /\ ui.page = "history" /\ ui.connected /\ ~ui.claiming
    /\ LET sent == Claimable(ui.items, ui.decrypted)
       IN  IF Len(sent) = 0
           THEN ui' = [ui EXCEPT !.status = <<"Nothing to claim">>, !.failure = NoFailure]
           ELSE ui' = [ui EXCEPT !.claiming = TRUE,
                                 !.claimArgs = <<[i \in 1..Len(sent) |-> sent[i].index],
                                                 [i \in 1..Len(sent) |-> sent[i].rec[5]]>>,
                                 !.failure = NoFailure]
    /\ UNCHANGED <<chainVars, calc>>

\* claimAllMock returns the receipt of the mined transaction or throws (a
\* revert of the transaction throws its reason); finally claiming is reset.
HistoryClaimDone ==
    /\ ui.page = "history" /\ ui.claiming
    /\ \/ /\ blockTimestamp < MaxTx
          /\ claimAllMock(UiUser, ui.claimArgs[1], ui.claimArgs[2], TRUE)
          /\ IF receipt'.status = "ok"
             THEN ui' = [ui EXCEPT !.status = <<"Claimed entries. Tx">>,
                                   !.claiming = FALSE, !.failure = NoFailure]
             ELSE ui' = [ui EXCEPT
                            !.status = <<"Claim failed: ",
                                         messageOf(RevertError(receipt'.reason))>>,
                            !.claiming = FALSE,
                            !.failure = Failure(RevertError(receipt'.reason), TRUE)]
       \/ /\ \E e \in ErrorSamples :
                ui' = [ui EXCEPT !.status = <<"Claim failed: ", messageOf(e)>>,
                                 !.claiming = FALSE, !.failure = Failure(e, TRUE)]
          /\ UNCHANGED chainVars
    /\ UNCHANGED calc

----------------------------------------------------------------------------
(* Leaderboard *)

\* pairs.sort((a, b) => b.plays - a.plays): a stable sort, most plays first.
RECURSIVE InsertByPlays(_, _)
InsertByPlays(sorted, x) ==
    IF sorted = <<>> THEN <<x>>
    ELSE IF x.plays > Head(sorted).plays THEN <<x>> \o sorted
    ELSE <<Head(sorted)>> \o InsertByPlays(Tail(sorted), x)

RECURSIVE SortByPlays(_)
SortByPlays(pairs) ==
    IF pairs = <<>> THEN <<>>
    ELSE InsertByPlays(SortByPlays(SubSeq(pairs, 1, Len(pairs) - 1)), pairs[Len(pairs)])

\* pairs.slice(0, 10)
TopTen(pairs) == SubSeq(pairs, 1, IF Len(pairs) < 10 THEN Len(pairs) ELSE 10)

\* The rows are set once the loop over the players has ended.
LeaderboardLoaded(u, pairs) ==
    [u EXCEPT !.pairs = pairs, !.rows = TopTen(SortByPlays(pairs)),
              !.status = <<"Ready">>, !.pc = "idle", !.failure = NoFailure]

LeaderboardCatch(e) ==
    ui' = [ui EXCEPT !.status = <<"Failed: ", messageOf(e)>>, !.pc = "idle",
                     !.failure = Failure(e, TRUE)]

\* The effect of Leaderboard: the load starts.
LeaderboardEffect ==
    /\ ui.page = "leaderboard" /\ ui.connected /\ ~ui.effectRan
    /\ ui' = [ui EXCEPT !.status = <<"Loading players...">>, !.pc = "getPlayers",
                        !.effectRan = TRUE, !.failure = NoFailure]
    /\ UNCHANGED <<chainVars, calc>>

\* getPlayers returns or throws.
LeaderboardPlayers ==
    /\ ui.page = "leaderboard" /\ ui.pc = "getPlayers"
    /\ \/ IF Len(getPlayers) = 0
          THEN ui' = LeaderboardLoaded([ui EXCEPT !.players = getPlayers], <<>>)
          ELSE ui' = [ui EXCEPT !.players = getPlayers, !.pairs = <<>>,
                                !.pc = "getUserHistoryLength", !.failure = NoFailure]
       \/ \E e \in ErrorSamples : LeaderboardCatch(e)
    /\ UNCHANGED <<chainVars, calc>>

\* getUserHistoryLength of the next player returns or throws.
LeaderboardLength ==
    /\ ui.page = "leaderboard" /\ ui.pc = "getUserHistoryLength"
    /\ \/ LET p == ui.players[Len(ui.pairs) + 1]
              pairs == Append(ui.pairs, [addr |-> p, plays |-> getUserHistoryLength(p)])
          IN  IF Len(pairs) = Len(ui.players)
              THEN ui' = LeaderboardLoaded(ui, pairs)
              ELSE ui' = [ui EXCEPT !.pairs = pairs, !.failure = NoFailure]
       \/ \E e \in ErrorSamples : LeaderboardCatch(e)
    /\ UNCHANGED <<chainVars, calc>>

----------------------------------------------------------------------------

\* The contract alone: no page is open.
UiOff == ui = Mounted("none", FALSE)

Init == ChainInit /\ CalcIdle /\ UiOff

Next == Deposit \/ BetAndSpin \/ ClaimAllMock

Spec == Init /\ [][Next]_vars

\* The payout rules alone.
RulesInit == ChainInit /\ CalcInit /\ UiOff

RulesNext ==
    CalcResolveBet \/ CalcDrawReels \/ CalcMultiplier \/ CalcPayout \/ CalcShowRule

SpecRules == RulesInit /\ [][RulesNext]_vars

\* The frontend of one user over the contract; the other account plays too.
OtherBetAndSpin ==
    /\ blockTimestamp < MaxTx
    /\ \E sender \in Players \ {UiUser} :
        /\ Len(history[sender]) < MaxHist
        /\ \E v \in ChainMsgValueSamples, e \in ChainBetExtSamples,
              r1 \in ChainRandSamples, r2 \in ChainRandSamples, r3 \in ChainRandSamples :
                betAndSpin(sender, v, e, TRUE, r1, r2, r3)
    /\ UNCHANGED <<calc, ui>>

UiInitAll == ChainInit /\ CalcIdle /\ UiInit

UiNext ==
    \/ Connect \/ Navigate
    \/ WelcomeEffect \/ WelcomeRefreshClick \/ WelcomeRefreshDone
    \/ WelcomeDepositClick \/ WelcomeDepositDone
    \/ GameSpinClick \/ GameEncrypted \/ GameSubmitted \/ GameConfirmed
    \/ GameRecordRead \/ GameDecrypted \/ GameRevealTimer
    \/ HistoryEffect \/ HistoryFetched \/ HistoryDecrypted
    \/ HistoryClaimClick \/ HistoryClaimDone
    \/ LeaderboardEffect \/ LeaderboardPlayers \/ LeaderboardLength
    \/ OtherBetAndSpin

SpecUI == UiInitAll /\ [][UiNext]_vars

\* The Game page over the contract, with the transactions any account, the
\* user's own from another session included, sends at any point of onSpin;
\* the claims among them are of one record each.
\* The handlers of the other pages write neither the state of Game nor the
\* contract but through these transactions.
ClaimOne ==
    /\ blockTimestamp < MaxTx
    /\ \E sender \in Players, idx \in 0..(MaxHist - 1), amount \in ClearPayoutSamples,
          accepts \in BOOLEAN :
            claimAllMock(sender, <<idx>>, <<amount>>, accepts)
    /\ UNCHANGED <<calc, ui>>

GameNext ==
    \/ Connect \/ Navigate
    \/ GameSpinClick \/ GameEncrypted \/ GameSubmitted \/ GameConfirmed
    \/ GameRecordRead \/ GameDecrypted \/ GameRevealTimer
    \/ Deposit \/ BetAndSpin \/ ClaimOne

SpecGame == UiInitAll /\ [][GameNext]_vars

-----------------------------------------------------------------------------
(* Properties.                                                             *)

\* The multiplier table of the specification, by the number of distinct
\* symbols and the symbol that repeats.
TableCode(s1, s2, s3) ==
    LET kinds == Cardinality({s1, s2, s3})
        repeated == IF s1 = s2 \/ s1 = s3 THEN s1 ELSE s2
    IN  CASE kinds = 1 -> (CASE s1 = 5 -> 50 [] s1 = 4 -> 25 [] OTHER -> 5)
          [] kinds = 2 -> (IF repeated \in {4, 5} THEN 2 ELSE xHalfCode)
          [] OTHER -> 0

\* C1: for every triple of symbols in 0..5, _computeMultiplier returns 50 for
\* three 5s, 25 for three 4s, 5 for any other three of a kind, 2 for exactly
\* two equal with the repeated symbol 4 or 5, the code 255 for exactly two
\* equal with the repeated symbol in 0..3, and 0 for three distinct symbols;
\* the result is always one of 0, 2, 5, 25, 50, 255.
C1_MultiplierTable ==
    calc.stage \in {"mult", "payout", "shown"} =>
        /\ calc.mult = TableCode(calc.sym[1], calc.sym[2], calc.sym[3])
        /\ calc.mult \in {0, 2, 5, 25, 50, 255}

\* A low pair in the outer reels around a high symbol has been evaluated.
C1_Witness ==
    calc.stage = "mult" /\ calc.sym = <<3, 5, 3>> /\ calc.mult = 255

\* The contract's multiplier code as the number it stands for.
DecodeMultiplier(code) == IF code = xHalfCode THEN HalfNum ELSE Num(code)

\* C2: for every triple of symbols in 0..5, the multiplier getMultiplierInfo
\* shows equals the one _computeMultiplier returns, with the code 255 read as
\* 0.5.
C2_FrontendRuleMatches ==
    calc.stage = "shown" => calc.info.mult = DecodeMultiplier(calc.mult)

\* A high pair in the outer reels has been evaluated on both sides.
C2_Witness ==
    /\ calc.stage = "shown" /\ calc.sym = <<4, 1, 4>>
    /\ calc.mult = 2 /\ calc.info.name = "High Pair (7/ Clover)"

\* A transaction has just been mined.
TxStep == blockTimestamp' = blockTimestamp + 1

\* What getUserRecord returns of a record: all of it but the claimed flag.
RecordData(r) == <<r.encBet, r.sym1, r.sym2, r.sym3, r.encPayout, r.timestamp>>

\* C3: a record at index i of a player's history stays at index i with the
\* same bet, symbols, payout and timestamp through every later deposit,
\* betAndSpin and claimAllMock; only its claimed flag may change.
C3_IndexStable ==
    [][\A p \in Players : \A i \in 1..Len(history[p]) :
            /\ i <= Len(history'[p])
            /\ RecordData(history'[p][i]) = RecordData(history[p][i])]_vars

\* A player's first record, written in the first transaction, has since
\* been followed by a second record and been claimed.
C3_Witness ==
    \E p \in Players :
        /\ Len(history[p]) = 2
        /\ history[p][1].timestamp = 0
        /\ history[p][1].claimed

\* C4: every record is created with claimed = false, and a record whose
\* claimed flag is true keeps it true through every later deposit,
\* betAndSpin and claimAllMock.
C4_ClaimedMonotonic ==
    [][\A p \in Players :
            /\ \A i \in 1..Len(history[p]) :
                    history[p][i].claimed =>
                        (i <= Len(history'[p]) /\ history'[p][i].claimed)
            /\ \A i \in (Len(history[p]) + 1)..Len(history'[p]) :
                    ~history'[p][i].claimed]_vars

\* A claimed record has gone through a later play of its owner, whose new
\* record is unclaimed.
C4_Witness ==
    \E p \in Players :
        /\ Len(history[p]) = 2
        /\ history[p][1].claimed /\ ~history[p][2].claimed
        /\ receipt.fn = "betAndSpin" /\ receipt.sender = p /\ receipt.status = "ok"

\* C5: a successful betAndSpin by p makes p's history one record longer and
\* leaves every other player's history as it was; no transaction makes any
\* history shorter.
C5_AppendOnly ==
    [][/\ \A p \in Players : Len(history'[p]) >= Len(history[p])
       /\ (TxStep /\ receipt'.fn = "betAndSpin" /\ receipt'.status = "ok") =>
            /\ Len(history'[receipt'.sender]) =
                    getUserHistoryLength(receipt'.sender) + 1
            /\ \A q \in Players \ {receipt'.sender} : history'[q] = history[q]]_vars

\* A player with one record has just played again while the other player
\* has a record too.
C5_Witness ==
    /\ receipt.fn = "betAndSpin" /\ receipt.status = "ok"
    /\ Len(history[receipt.sender]) = 2
    /\ \E q \in Players \ {receipt.sender} : Len(history[q]) = 1

InPlayers(p) == \E i \in 1..Len(getPlayers) : getPlayers[i] = p

C6_PlayersMirrorHistories ==
    /\ \A i, j \in 1..Len(getPlayers) : i # j => getPlayers[i] # getPlayers[j]
    /\ \A p \in Players : InPlayers(p) <=> getUserHistoryLength(p) > 0

C6_PlayersGrow ==
    IF /\ TxStep /\ receipt'.fn = "betAndSpin" /\ receipt'.status = "ok"
       /\ getUserHistoryLength(receipt'.sender) = 0
    THEN players' = Append(players, receipt'.sender)
    ELSE players' = players

\* C6: getPlayers() holds no address twice, holds an address exactly when
\* its history is not empty, and only grows: an address is appended on its
\* first betAndSpin and at no other time, and no entry is removed or moved.
C6_PlayerList == [](C6_PlayersMirrorHistories) /\ [][C6_PlayersGrow]_vars

\* Both accounts are listed, in the order of their first plays, and the
\* first of them has played twice.
C6_Witness ==
    /\ getPlayers = <<"bob", "alice">>
    /\ getUserHistoryLength("bob") = 2
    /\ getUserHistoryLength("alice") = 1

\* C7: the stored payout is the exact product of the bet and the multiplier
\* whenever the multiplier is one of 0, 2, 5, 25, 50: no limb of the product
\* lies beyond the 64 bits of encPayout.
C7_PayoutIsExactProduct ==
    (calc.stage \in {"payout", "shown"} /\ calc.mult \in {0, 2, 5, 25, 50}) =>
        Resize(calc.payout, Limbs64 + 1) = MulExact(calc.bet, calc.mult)

\* C8: each of sym1, sym2, sym3 of every stored record is in 0..5.
C8_SymbolsInRange ==
    \A p \in Players : \A i \in 1..Len(history[p]) :
        /\ history[p][i].sym1 \in Symbols
        /\ history[p][i].sym2 \in Symbols
        /\ history[p][i].sym3 \in Symbols

\* A record drawn from the random value 0xFFFFFFFF is stored.
C8_Witness ==
    \E p \in Players :
        /\ Len(history[p]) >= 1
        /\ history[p][1].sym1 = 3 /\ history[p][1].sym2 = 3 /\ history[p][1].sym3 = 3

\* The payout of the record a successful betAndSpin has appended, as a uint256.
LastPayout(h) == Resize(h[Len(h)].encPayout, Limbs256)

\* C9: a successful betAndSpin sends the computed payout to the player as
\* part of the play: the pool balance afterwards is the balance before plus
\* the ETH bet minus the payout.
C9_SpinPaysOut ==
    [][(TxStep /\ receipt'.fn = "betAndSpin" /\ receipt'.status = "ok") =>
            /\ receipt'.paid = LastPayout(history'[receipt'.sender])
            /\ poolBalance' =
                    SubW(AddW(poolBalance, receipt'.value),
                         LastPayout(history'[receipt'.sender]))]_vars

\* C10: whenever an awaited call has failed in a handler of a page, the
\* status the page displays afterwards contains the failure's message.
C10_FailureDisplayed ==
    (ui.failure # NoFailure /\ ui.failure.awaited) =>
        messageOf(ui.failure.error) \in Displayed

\* An index occurs at two positions of the array.
Repeats(indexes) ==
    \E i, j \in 1..Len(indexes) : i # j /\ indexes[i] = indexes[j]

\* The array names a record of h that is already claimed.
HoldsClaimed(h, indexes) ==
    \E i \in 1..Len(indexes) : indexes[i] < Len(h) /\ h[indexes[i] + 1].claimed

\* Every index of the array is a position of h.
AllInRange(h, indexes) == \A i \in 1..Len(indexes) : indexes[i] < Len(h)

\* C11 as stated: a call of claimAllMock whose indexes hold an already
\* claimed record, or hold an index twice, reverts with "Already claimed".
C11_RevertsAlreadyClaimed ==
    [][\A sender \in Players, args \in ClaimArgSamples, accepts \in BOOLEAN :
        (/\ claimAllMock(sender, args[1], args[2], accepts)
         /\ (Repeats(args[1]) \/ HoldsClaimed(history[sender], args[1]))) =>
            (receipt'.status = "revert" /\ receipt'.reason = "Already claimed")]_vars

\* What a call of claimAllMock by sender with the arrays args does in the
\* present state.
ClaimRun(sender, args, accepts) ==
    claimOutcome(history[sender], poolBalance, args[1], args[2], accepts)

\* In every state a transaction may follow, for every call that may come
\* next: a successful call
\* names each index once and only records unclaimed until then, which it
\* marks; a call whose indexes hold a claimed record or an index twice
\* reverts and marks nothing, with "Already claimed" when the arrays have
\* one length and every index is in range.
C11_OutcomeOfClaim ==
    blockTimestamp < MaxTx =>
    \A sender \in Players, args \in ClaimArgSamples, accepts \in BOOLEAN :
        LET h == history[sender]
            out == ClaimRun(sender, args, accepts)
            offending == Repeats(args[1]) \/ HoldsClaimed(h, args[1])
        IN  /\ out.status = "ok" =>
                    /\ ~Repeats(args[1])
                    /\ \A i \in 1..Len(args[1]) :
                            /\ ~getUserRecordStatus(sender, args[1][i])
                            /\ out.hist[args[1][i] + 1].claimed
            /\ offending =>
                    /\ out.status = "revert"
                    /\ out.reason \in {"Already claimed", "Length mismatch", "Index OOB"}
                    /\ out.hist = h /\ IsZero(out.paid)
                    /\ (Len(args[1]) = Len(args[2]) /\ AllInRange(h, args[1])) =>
                            out.reason = "Already claimed"

\* No step clears a flag; a reverted transaction leaves the ledger as it
\* was; a successful claimAllMock sets at least the flags it finds unset
\* in no history but its sender's.
C11_FlagsKept ==
    /\ \A p \in Players : \A i \in 1..Len(history[p]) :
            history[p][i].claimed =>
                (i <= Len(history'[p]) /\ history'[p][i].claimed)
    /\ (TxStep /\ receipt'.status = "revert") =>
            UNCHANGED <<history, players, isPlayer, balance>>
    /\ (TxStep /\ receipt'.fn = "claimAllMock") =>
            \A q \in Players \ {receipt'.sender} : history'[q] = history[q]

\* C11, amended: a successful claimAllMock names each index once and only
\* records unclaimed until then, which it marks; a flag once set stays set,
\* so no record is in two successful calls. A call whose indexes hold an
\* already claimed record or an index twice reverts and changes nothing; its
\* reason is "Already claimed" when the arrays have one length and every
\* index is in range, otherwise that of the require that fails first
\* ("Length mismatch" or "Index OOB" may come before).
C11_ClaimedAtMostOnce == [](C11_OutcomeOfClaim) /\ [][C11_FlagsKept]_vars

\* A record claimed in an earlier call has just been named in another call,
\* which reverted with "Already claimed".
C11_Witness ==
    /\ receipt.fn = "claimAllMock" /\ receipt.status = "revert"
    /\ receipt.reason = "Already claimed"
    /\ \E i \in 1..Len(history[receipt.sender]) : history[receipt.sender][i].claimed

\* The sum of the first n amounts of the array, as a uint256.
RECURSIVE SumPayouts(_, _)
SumPayouts(clearPayouts, n) ==
    IF n = 0 THEN Zero(Limbs256)
    ELSE AddW(SumPayouts(clearPayouts, n - 1), Resize(clearPayouts[n], Limbs256))

\* The position i of a history is named by the array of indexes.
Listed(indexes, i) == \E k \in 1..Len(indexes) : indexes[k] + 1 = i

\* In every state a transaction may follow, for every call that may come
\* next: with empty arrays it
\* succeeds, marks nothing and sends nothing; when it succeeds the flags
\* are the old ones and those of the listed positions, all else in the
\* caller's records is as before, and it sends the sum of clearPayouts,
\* which the pool holds.
C12_OutcomeOfClaim ==
    blockTimestamp < MaxTx =>
    \A sender \in Players, args \in ClaimArgSamples, accepts \in BOOLEAN :
        LET h == history[sender]
            out == ClaimRun(sender, args, accepts)
            total == SumPayouts(args[2], Len(args[2]))
        IN  /\ (args[1] = <<>> /\ args[2] = <<>>) =>
                    (out.status = "ok" /\ out.hist = h /\ IsZero(out.paid))
            /\ out.status = "ok" =>
                    /\ Len(out.hist) = Len(h)
                    /\ \A i \in 1..Len(h) :
                            /\ out.hist[i].claimed = (h[i].claimed \/ Listed(args[1], i))
                            /\ RecordData(out.hist[i]) = RecordData(h[i])
                    /\ out.paid = total
                    /\ Geq(poolBalance, total)

\* A successful claimAllMock takes from the pool what it sends, and leaves
\* the other players' histories, the lengths, the data of the records and
\* the player list as they were.
C12_FrameOfClaim ==
    (TxStep /\ receipt'.fn = "claimAllMock" /\ receipt'.status = "ok") =>
        /\ Geq(poolBalance, receipt'.paid)
        /\ poolBalance' = SubW(poolBalance, receipt'.paid)
        /\ \A q \in Players \ {receipt'.sender} : history'[q] = history[q]
        /\ Len(history'[receipt'.sender]) = Len(history[receipt'.sender])
        /\ \A i \in 1..Len(history[receipt'.sender]) :
                RecordData(history'[receipt'.sender][i]) =
                    RecordData(history[receipt'.sender][i])
        /\ UNCHANGED <<players, isPlayer>>

\* C12: a successful claimAllMock(indexes, clearPayouts) by p marks exactly
\* the records of p at the listed indexes, sends p the sum of clearPayouts
\* and takes that sum from the pool, and changes nothing else: no record of
\* another player, no bet, symbol, payout or timestamp, no history length,
\* no player list. With empty arrays it succeeds and changes nothing.
C12_ClaimFrame == [](C12_OutcomeOfClaim) /\ [][C12_FrameOfClaim]_vars

\* A player has claimed both records in one call and been sent 1 ETH, the
\* sum of the two amounts given, while the pool held exactly that.
C12_Witness ==
    /\ receipt.fn = "claimAllMock" /\ receipt.status = "ok"
    /\ receipt.paid = Resize(OneEth, Limbs256)
    /\ Len(history[receipt.sender]) = 2
    /\ history[receipt.sender][1].claimed /\ history[receipt.sender][2].claimed
    /\ IsZero(poolBalance)

\* Stored payouts a second run may hold in place of those of the first.
StoredPayoutSamples == {Zero(Limbs64), OneEth}

\* The histories that differ from h in the stored payouts only.
PayoutVariants(h) ==
    {[i \in 1..Len(h) |-> [h[i] EXCEPT !.encPayout = f[i]]] :
        f \in [1..Len(h) -> StoredPayoutSamples]}

\* The arrays have one length and name, each once, unclaimed records of h,
\* and the pool holds the sum of the amounts.
Payable(h, bal, indexes, clearPayouts) ==
    /\ Len(indexes) = Len(clearPayouts)
    /\ AllInRange(h, indexes)
    /\ ~HoldsClaimed(h, indexes)
    /\ ~Repeats(indexes)
    /\ Geq(bal, SumPayouts(clearPayouts, Len(clearPayouts)))

\* C13 as stated: any clearPayouts whose sum does not exceed the pool
\* balance is paid for unclaimed in-range indexes.
C13_AnyAmountPaid ==
    [][\A sender \in Players, args \in ClaimArgSamples, accepts \in BOOLEAN :
        (/\ claimAllMock(sender, args[1], args[2], accepts)
         /\ Payable(history[sender], poolBalance, args[1], args[2])) =>
            /\ receipt'.status = "ok"
            /\ receipt'.paid = SumPayouts(args[2], Len(args[2]))]_vars

\* In every state a transaction may follow, for every call that may come
\* next: a run over a history
\* that differs in the stored payouts only has the same status and reason
\* and sends the same amount; amounts the pool holds are paid for distinct
\* unclaimed in-range indexes when the sum is zero or the caller's address
\* takes the ETH, and the call reverts with "Transfer failed" when not.
C13_OutcomeOfClaim ==
    blockTimestamp < MaxTx =>
    \A sender \in Players, args \in ClaimArgSamples, accepts \in BOOLEAN :
        LET h == history[sender]
            total == SumPayouts(args[2], Len(args[2]))
            run(g) == claimOutcome(g, poolBalance, args[1], args[2], accepts)
            out == run(h)
        IN  /\ \A g \in PayoutVariants(h) :
                    LET other == run(g)
                    IN  /\ other.status = out.status
                        /\ other.reason = out.reason
                        /\ other.paid = out.paid
            /\ Payable(h, poolBalance, args[1], args[2]) =>
                    IF accepts \/ IsZero(total)
                    THEN out.status = "ok" /\ out.paid = total
                    ELSE /\ out.status = "revert" /\ out.reason = "Transfer failed"
                         /\ out.hist = h /\ IsZero(out.paid)

\* What a claimAllMock reports as sent is what leaves the pool, and a
\* reverted one sends nothing.
C13_PaidLeavesPool ==
    (TxStep /\ receipt'.fn = "claimAllMock") =>
        /\ poolBalance' = SubW(poolBalance, receipt'.paid)
        /\ receipt'.status = "revert" =>
                (IsZero(receipt'.paid) /\ UNCHANGED <<history, players, isPlayer, balance>>)

\* C13, amended: what claimAllMock sends depends on clearPayouts, the pool
\* balance and the claimed flags, never on the stored payouts: a run that
\* differs in the stored encPayout of the caller's records only has the same
\* status, the same reason and sends the same amount. Any clearPayouts
\* whose sum does not exceed the pool balance is paid for distinct unclaimed
\* in-range indexes when the sum is zero or the caller's address takes the
\* ETH; when it does not, the call reverts with "Transfer failed" and
\* nothing is paid or marked.
C13_TrustsClearPayouts == [](C13_OutcomeOfClaim) /\ [][C13_PaidLeavesPool]_vars

\* A record whose stored payout is 15 wei (3 wei at 5x) has been claimed
\* for 1 ETH, and the 1 ETH has been sent.
C13_Witness ==
    /\ receipt.fn = "claimAllMock" /\ receipt.status = "ok"
    /\ receipt.paid = Resize(OneEth, Limbs256)
    /\ \E i \in 1..Len(history[receipt.sender]) :
            /\ history[receipt.sender][i].claimed
            /\ history[receipt.sender][i].encPayout = Small(15, Limbs64)

\* C14: deposit with msg.value > 0 increases poolBalance() by exactly
\* msg.value and leaves every history, every claimed flag and the player
\* list unchanged; with msg.value = 0 it reverts with "No ETH sent" and the
\* whole state, the pool balance included, is unchanged.
C14_DepositFundsPool ==
    [][\A sender \in Players, v \in DepositSamples :
        deposit(sender, v) =>
            IF IsZero(v)
            THEN /\ receipt'.status = "revert" /\ receipt'.reason = "No ETH sent"
                 /\ UNCHANGED <<history, players, isPlayer, balance>>
            ELSE /\ receipt'.status = "ok"
                 /\ Geq(poolBalance', poolBalance)
                 /\ SubW(poolBalance', poolBalance) = v
                 /\ receipt'.event = [name |-> "Deposit", from |-> sender, amount |-> v]
                 /\ UNCHANGED <<history, players, isPlayer>>]_vars

\* 1 ETH has been deposited into a pool that held 1 ETH from a play, whose
\* record and player entry are there.
C14_Witness ==
    /\ receipt.fn = "deposit" /\ receipt.status = "ok"
    /\ poolBalance = AddW(Resize(OneEth, Limbs256), Resize(OneEth, Limbs256))
    /\ Len(getPlayers) = 1
    /\ getUserHistoryLength(getPlayers[1]) = 1

\* C15: when msg.value > 0 the recorded bet equals msg.value, for every
\* msg.value in the 256-bit range, and the encrypted external input is
\* ignored; when msg.value = 0 the recorded bet equals the value of betExt.
C15_BetIsFundsSent ==
    calc.stage \in {"bet", "reels", "mult", "payout", "shown"} =>
        IF ~IsZero(calc.msgValue)
        THEN Resize(calc.bet, Limbs256) = calc.msgValue
        ELSE calc.bet = calc.betExt

\* The largest even number not above a.
EvenPart(a) == [a EXCEPT ![1] = @ - (@ % 2)]

\* C16: for a triple whose multiplier code is 255 the stored payout is
\* floor(bet / 2), so that twice the payout is the bet, less one for an odd
\* bet; for every other triple it is the low 64 bits of bet times the
\* multiplier; for a non-zero bet it is never bet times 255.
C16_HalfPayout ==
    calc.stage \in {"payout", "shown"} =>
        /\ IF calc.mult = xHalfCode
           THEN /\ TableCode(calc.sym[1], calc.sym[2], calc.sym[3]) = xHalfCode
                /\ MulExact(calc.payout, 2) = Resize(EvenPart(calc.bet), Limbs64 + 1)
           ELSE /\ calc.mult \in {0, 2, 5, 25, 50}
                /\ calc.payout = SubSeq(MulExact(calc.bet, calc.mult), 1, Limbs64)
        /\ ~IsZero(calc.bet) =>
                Resize(calc.payout, Limbs64 + 1) # MulExact(calc.bet, 255)

\* A bet of 3 wei on a low pair has been paid 1 wei.
C16_Witness ==
    /\ calc.stage = "payout" /\ calc.mult = xHalfCode
    /\ calc.bet = ThreeWei /\ calc.payout = Small(1, Limbs64)

\* The Game page shows a result: a reveal is running, or its last column
\* has stopped.
ResultShown ==
    /\ ui.page = "game"
    /\ (ui.pc \in {"reveal1", "reveal2", "reveal3"} \/ ui.displayReels[3] # <<>>)

\* What the Game page holds of a spin is the record that spin appended: the
\* record at the index of the event when it is read, the record read, and
\* the symbols, payout and rule on the screen.
C17_PageHoldsItsSpin ==
    /\ (ui.page = "game" /\ ui.pc = "readOwnRecord") =>
            /\ ui.playedIndex[1] < getUserHistoryLength(UiUser)
            /\ getUserRecord(UiUser, ui.playedIndex[1]) = ui.spun
    /\ (ui.page = "game" /\ ui.pc = "decryptUserRecords") => ui.rec = ui.spun
    /\ ui.page = "game" =>
            \A col \in 1..3 :
                ui.displayReels[col] # <<>> => ui.displayReels[col][1] = ui.spun[col + 1]
    /\ ResultShown =>
            /\ ui.finalPayout = formatEther(ui.spun[5])
            /\ ui.hitRule = getMultiplierInfo(ui.spun[2], ui.spun[3], ui.spun[4])

\* A successful betAndSpin emits Played with its sender and the length the
\* sender's history had before the call, and the record at that index
\* afterwards is a new one, the last.
C17_PlayedIndex ==
    (TxStep /\ receipt'.fn = "betAndSpin" /\ receipt'.status = "ok") =>
        /\ receipt'.event = [name |-> "Played", player |-> receipt'.sender,
                             index |-> getUserHistoryLength(receipt'.sender)]
        /\ Len(history'[receipt'.sender]) = getUserHistoryLength(receipt'.sender) + 1
        /\ history'[receipt'.sender][receipt'.event.index + 1].timestamp = blockTimestamp

SpinInFlight == ui.page = "game" /\ ui.pc # "idle"

\* While a run of onSpin is in flight the phase is not idle, so that the
\* Start button is disabled, and the run has called betAndSpinTx at most
\* once.
C18_ButtonOffInFlight ==
    /\ SpinInFlight => ui.phase \in {"spinning", "revealing"}
    /\ ui.txCalls <= 1

\* A run starts from the idle phase only and is spinning at its first
\* await; betAndSpinTx is called in a run that has not called it, while
\* the phase is spinning.
C18_OneSubmission ==
    /\ (ui'.pc = "prepareEncryptedBet" /\ ui.pc # "prepareEncryptedBet") =>
            /\ ui.phase = "idle" /\ ui.pc = "idle"
            /\ ui'.phase = "spinning" /\ ui'.txCalls = 0
    /\ ui'.txCalls > ui.txCalls =>
            /\ ui.txCalls = 0 /\ ui'.txCalls = 1
            /\ ui.phase = "spinning" /\ ui'.phase = "spinning"

====
